---- MODULE Spec2Model ----
(***************************************************************************)
(* starter_server.py: the two MCP tools scrape_websites and                *)
(* extract_scraped_info over the directory SCRAPE_DIR, which holds the     *)
(* metadata store scraped_metadata.json and the per-format content files.  *)
(***************************************************************************)
EXTENDS Integers, Sequences, FiniteSets, TLC

(***************************************************************************)
(* Bounds of the model.                                                    *)
(***************************************************************************)
MaxBatch == 2          \* providers in one websites mapping
MaxAttempts == 2       \* collaborator calls over the whole run (the clock)

(***************************************************************************)
(* Inputs.                                                                 *)
(***************************************************************************)
None == "<None>"       \* Python's None, for optional strings

\* The (provider_name, url) items the websites mappings are built from: two
\* providers whose urls share a host, the second named like that host, and
\* a provider whose url urlparse rejects.
Sites ==
  { <<"a", "https://a_raw/1">>,
    <<"a_raw", "https://a_raw/2">>,
    <<"b", "http://[bad">> }

ProviderNames == { site[1] : site \in Sites }
Urls == { site[2] : site \in Sites }

\* urlparse(url) raises ValueError("Invalid IPv6 URL") for a netloc with an
\* unbalanced bracket.
UrlparseRaises(url) == url = "http://[bad"

\* urlparse(url).netloc for the urls of the model.
Netloc(url) ==
  CASE url = "https://a_raw/1" -> "a_raw"
    [] url = "https://a_raw/2" -> "a_raw"
    [] OTHER -> ""

FormatLists == { <<"raw_html", "html">> }

ApiKeys == {None, "", "fc-key"}

\* The identifiers looked up: a provider name, a name that is also the domain
\* of both good urls, a url, and one that matches nothing.
Identifiers == {"a", "a_raw", "https://a_raw/2", "nope"}

DistinctNames(w) ==
  \A i, j \in 1..Len(w) : i # j => w[i][1] # w[j][1]

\* The websites mappings: a dict, so provider names are distinct and the
\* items keep their insertion order.
Websites ==
  { w \in UNION { [1..n -> Sites] : n \in 1..MaxBatch } : DistinctNames(w) }

(***************************************************************************)
(* Python dicts: a sequence of <<key, value>> items in insertion order.    *)
(***************************************************************************)
Keys(d) == { d[i][1] : i \in 1..Len(d) }

KeySeq(d) == [i \in 1..Len(d) |-> d[i][1]]

\* Mutation of DictPut: an existing key is deleted and inserted again.
DictPutMovesToEnd(d, k, v) ==
  Append(SelectSeq(d, LAMBDA item : item[1] # k), <<k, v>>)

\* Mutation of DictPut: the value of an existing key is updated, not replaced.
DictPutMerges(d, k, v) ==
  IF k \in Keys(d)
    THEN [i \in 1..Len(d) |-> IF d[i][1] = k THEN <<k, v @@ d[i][2]>> ELSE d[i]]
    ELSE Append(d, <<k, v>>)

\* d[k] = v: a new key is appended, an existing key keeps its place.
DictPut(d, k, v) ==
  IF k \in Keys(d)
    THEN [i \in 1..Len(d) |-> IF d[i][1] = k THEN <<k, v>> ELSE d[i]]
    ELSE Append(d, <<k, v>>)

\* dict.get(key, default) on a record.
Get(r, field, default) == IF field \in DOMAIN r THEN r[field] ELSE default

\* Mutation of Truthy: only None is falsy, the empty string is not.
TruthyExceptNone(s) == s # None

\* Python truthiness of an optional string.
Truthy(s) == s # None /\ s # ""

(***************************************************************************)
(* The file system under SCRAPE_DIR.                                       *)
(***************************************************************************)
SCRAPE_DIR == "scraped_content"

\* Mutation of WriteFile: the file is not created.
WriteFileNothing(fs, name, content) == fs

\* open(filepath, 'w') followed by f.write(content).
WriteFile(fs, name, content) ==
  [n \in DOMAIN fs \cup {name} |-> IF n = name THEN content ELSE fs[n]]

\* The files that can still be opened when those named in gone cannot.
Without(fs, gone) == [n \in DOMAIN fs \ gone |-> fs[n]]

NoFiles == [n \in {} |-> ""]

\* filename = f"{provider_name}_{fmt}.txt"
Filename(provider_name, fmt) == provider_name \o "_" \o fmt \o ".txt"

\* The metadata store file scraped_metadata.json: absent, holding the JSON
\* text of a mapping, or holding text that json.load rejects.
AbsentStore == [state |-> "absent", data |-> <<>>]
CorruptStore == [state |-> "corrupt", data |-> <<>>]

\* Mutation of Exists: the store file is taken to be there.
ExistsAlways(file) == TRUE

\* os.path.exists(metadata_file)
Exists(file) == file.state # "absent"

\* Mutation of JsonLoadRaises: text that cannot be parsed is read as {}.
JsonLoadRaisesNever(file) == FALSE

\* json.load(f) raises JSONDecodeError.
JsonLoadRaises(file) == file.state = "corrupt"

\* json.dump(scraped_metadata, f, indent=4), completed.
JsonDump(mapping) == [state |-> "ok", data |-> mapping]

\* Mutation of JsonLoad: the records of the store file are not read.
JsonLoadDropsRecords(file) == <<>>

\* json.load(f) of a well-formed store.
JsonLoad(file) == file.data

(***************************************************************************)
(* The scraping collaborator: app.scrape(url, formats).model_dump().       *)
(***************************************************************************)
Range(s) == { s[i] : i \in 1..Len(s) }

\* The text the page serves at time t.
Text(t) == "text" \o ToString(t)

Metadatas == { [status_code |-> 200], [status_code |-> 404], [title |-> ""] }

ScrapeResults(fmts, t) ==
  { [raises |-> TRUE] } \cup
  { [raises |-> FALSE, metadata |-> m, content |-> c] :
      m \in Metadatas, c \in [Range(fmts) -> {None, "", Text(t)}] }

\* scrape_result.get("metadata", {}).get("status_code", 0)
StatusCode(scrape_result) == Get(scrape_result.metadata, "status_code", 0)

\* The status test of the attempt: the scrape is accepted only with 200.
StatusOk(scrape_result) == StatusCode(scrape_result) = 200

\* scrape_result.get(fmt, None)
Content(scrape_result, fmt) == scrape_result.content[fmt]

(***************************************************************************)
(* One provider's attempt: the body of the for loop of scrape_websites.    *)
(***************************************************************************)
SuccessRecord(provider_name, url, fmts, content_files, t) ==
  [provider_name |-> provider_name, url |-> url, domain |-> Netloc(url),
   scraped_at |-> t, formats |-> fmts, success |-> TRUE,
   content_files |-> content_files, title |-> "", description |-> ""]

FailureRecord(provider_name, url, fmts, error, t) ==
  [provider_name |-> provider_name, url |-> url, domain |-> Netloc(url),
   scraped_at |-> t, formats |-> fmts, success |-> FALSE, error |-> error]

ScrapeFailedMessage(provider_name, url) ==
  "Scrape failed for " \o provider_name \o " at " \o url
    \o " with error: Unknown error"

\* The loop over formats from index i on: every format with content gets its
\* file written and its content_files entry; failAt is the index of the
\* format whose open() raises OSError (0: none does).
RECURSIVE WriteContentFiles(_, _, _, _, _, _, _)
WriteContentFiles(provider_name, fmts, scrape_result, failAt, i, fs, content_files) ==
  IF i > Len(fmts)
    THEN [files |-> fs, content_files |-> content_files, raised |-> FALSE]
    ELSE LET content == Content(scrape_result, fmts[i])
             filename == Filename(provider_name, fmts[i])
         IN IF ~Truthy(content)
              THEN WriteContentFiles(provider_name, fmts, scrape_result, failAt,
                                     i + 1, fs, content_files)
              ELSE IF i = failAt
                THEN [files |-> fs, content_files |-> content_files, raised |-> TRUE]
                ELSE WriteContentFiles(provider_name, fmts, scrape_result, failAt,
                                       i + 1, WriteFile(fs, filename, content),
                                       DictPut(content_files, fmts[i], filename))

\* The try block: the exception it ends with (None: it completes), the files
\* as it leaves them and the record it stores when it completes.
TryBlock(provider_name, url, fmts, scrape_result, failAt, fs, t) ==
  IF scrape_result.raises
    THEN [exc |-> "collaborator error", files |-> fs]
    ELSE IF ~StatusOk(scrape_result)
      THEN [exc |-> ScrapeFailedMessage(provider_name, url), files |-> fs]
      ELSE LET w == WriteContentFiles(provider_name, fmts, scrape_result, failAt,
                                      1, fs, <<>>)
           IN IF w.raised
                THEN [exc |-> "OSError", files |-> w.files]
                ELSE IF UrlparseRaises(url)
                  THEN [exc |-> "Invalid IPv6 URL", files |-> w.files]
                  ELSE [exc |-> None, files |-> w.files,
                        record |-> SuccessRecord(provider_name, url, fmts,
                                                 w.content_files, t)]

\* try/except of one provider: ok and record when a record is stored,
\* propagates when the except handler itself raises (its urlparse(url)).
Attempt(provider_name, url, fmts, scrape_result, failAt, fs, t) ==
  LET try == TryBlock(provider_name, url, fmts, scrape_result, failAt, fs, t)
  IN IF try.exc = None
       THEN [propagates |-> FALSE, ok |-> TRUE, files |-> try.files,
             record |-> try.record]
       ELSE IF UrlparseRaises(url)
         THEN [propagates |-> TRUE, ok |-> FALSE, files |-> try.files]
         ELSE [propagates |-> FALSE, ok |-> FALSE, files |-> try.files,
               record |-> FailureRecord(provider_name, url, fmts, try.exc, t)]

(***************************************************************************)
(* extract_scraped_info, as a function of the disk and the identifier.     *)
(***************************************************************************)
NotFound(identifier) == [kind |-> "notfound", identifier |-> identifier]

Raise(type, msg) == [kind |-> "raise", type |-> type, msg |-> msg]

\* Mutation of Matches: the url and the domain are not compared.
MatchesNameOnly(identifier, provider_name, data) == identifier = provider_name

\* Mutation of Payload: the content section is created unconditionally.
PayloadAlwaysWithContent(has_content, content) ==
  [kind |-> "json", has_content |-> TRUE, content |-> content]

\* json.dumps(result, indent=2): result is {} or {"content": {...}}.
Payload(has_content, content) ==
  [kind |-> "json", has_content |-> has_content, content |-> content]

\* The test of the search loop on one item of the mapping.
Matches(identifier, provider_name, data) ==
  \/ identifier = provider_name
  \/ identifier = Get(data, "url", None)
  \/ identifier = Get(data, "domain", None)

\* The search loop from item i on: the index of the first match, 0 if none.
RECURSIVE FindMatch(_, _, _)
FindMatch(scraped, identifier, i) ==
  IF i > Len(scraped) THEN 0
  ELSE IF Matches(identifier, scraped[i][1], scraped[i][2]) THEN i
  ELSE FindMatch(scraped, identifier, i + 1)

\* Mutation of OnUnreadable: the file is skipped and the loop goes on.
OnUnreadableSkips(identifier, continued) == continued

\* Reading an unreadable content file: the except branch returns the
\* not-found message.
OnUnreadable(identifier, continued) == NotFound(identifier)

\* The loop over matched_entry["content_files"] from item i on.
RECURSIVE ReadContentFiles(_, _, _, _, _)
ReadContentFiles(content_files, fs, identifier, i, content) ==
  IF i > Len(content_files) THEN Payload(TRUE, content)
  ELSE IF content_files[i][2] \in DOMAIN fs
    THEN ReadContentFiles(content_files, fs, identifier, i + 1,
                          DictPut(content, content_files[i][1],
                                  fs[content_files[i][2]]))
    ELSE OnUnreadable(identifier,
                      ReadContentFiles(content_files, fs, identifier, i + 1, content))

ExtractResult(dir, store, fs, identifier) ==
  IF ~dir THEN Raise("FileNotFoundError", "listdir")
  ELSE IF ~Exists(store)
    THEN Raise("FileNotFoundError", "Metadata file not found")
  ELSE IF JsonLoadRaises(store)
    THEN Raise("ValueError", "Error decoding JSON from metadata file")
  ELSE LET scraped == JsonLoad(store)
           m == FindMatch(scraped, identifier, 1)
       IN IF m = 0 THEN NotFound(identifier)
          ELSE LET content_files == Get(scraped[m][2], "content_files", <<>>)
               IN IF content_files # <<>>
                    THEN ReadContentFiles(content_files, fs, identifier, 1, <<>>)
                    ELSE Payload(FALSE, <<>>)

(***************************************************************************)
(* State.                                                                  *)
(***************************************************************************)
VARIABLES
  dirExists,           \* SCRAPE_DIR exists
  storeFile,           \* scraped_metadata.json
  files,               \* the content files of SCRAPE_DIR: name -> text
  clock,               \* datetime.utcnow(), one tick per attempt
  pc,                  \* "idle", or "loop": scrape_websites is in its for loop
  websites,            \* the running invocation's arguments
  formats,
  idx,                 \* the next item of websites
  scraped_metadata,    \* its in-memory mapping
  successful_scrapes,
  response,            \* what the last tool call gave its caller
  asked,               \* history: the identifier of the last lookup
  credential,          \* history: the last invocation had a credential
  batch,               \* history: the websites it entered its loop with
  start,               \* history: the store file when the invocation began
  log,                 \* history: the collaborator's outcome per attempt
  storeWrites,         \* history: opens for writing of the store file
  latest,              \* history: provider -> its last completed attempt
  firstInsert,         \* history: providers in the order first saved
  other                \* an invocation of scrape_websites by a second server
                       \* process on the same directory: its position,
                       \* arguments, locals, load-time store and response

disk == <<dirExists, storeFile, files>>
locals == <<websites, formats, idx, scraped_metadata, successful_scrapes>>
history == <<asked, credential, batch, start, log, storeWrites, latest, firstInsert>>
vars == <<dirExists, storeFile, files, clock, pc, websites, formats, idx,
          scraped_metadata, successful_scrapes, response, asked, credential, batch,
          start,
          log, storeWrites, latest, firstInsert, other>>

(***************************************************************************)
(* History: what each attempt was given, stated without the code's steps.  *)
(***************************************************************************)
\* The collaborator answered with status 200 and every file could be opened.
Succeeds(scrape_result, fmts, failAt) ==
  /\ ~scrape_result.raises
  /\ "status_code" \in DOMAIN scrape_result.metadata
  /\ scrape_result.metadata.status_code = 200
  /\ ~(failAt \in 1..Len(fmts) /\ scrape_result.content[fmts[failAt]] \notin {None, ""})

\* The requested formats the collaborator returned non-empty content for.
Returned(scrape_result, fmts) ==
  IF scrape_result.raises THEN <<>>
  ELSE SelectSeq(fmts, LAMBDA f : scrape_result.content[f] \notin {None, ""})

LogEntry(provider_name, url, fmts, scrape_result, failAt, t) ==
  [provider_name |-> provider_name, url |-> url, formats |-> fmts,
   answered |-> ~scrape_result.raises,
   status200 |-> ~scrape_result.raises /\ StatusCode(scrape_result) = 200,
   succeeded |-> Succeeds(scrape_result, fmts, failAt),
   returned |-> Returned(scrape_result, fmts), at |-> t]

LogNames(l) == { l[i].provider_name : i \in 1..Len(l) }

LastOf(l, p) ==
  l[CHOOSE i \in 1..Len(l) :
      l[i].provider_name = p /\ \A j \in (i + 1)..Len(l) : l[j].provider_name # p]

Completed(old, l) ==
  [p \in DOMAIN old \cup LogNames(l) |->
     IF p \in LogNames(l) THEN LastOf(l, p) ELSE old[p]]

RECURSIVE AppendNew(_, _, _)
AppendNew(order, l, i) ==
  IF i > Len(l) THEN order
  ELSE AppendNew(IF l[i].provider_name \in Range(order)
                   THEN order ELSE Append(order, l[i].provider_name),
                 l, i + 1)

NoAttempts == [p \in {} |-> <<>>]

\* An earlier run of the server: scrape_websites({"a": ..., "a_raw": ...})
\* on an empty directory, at times -1 and 0, both attempts succeeding, the
\* second with raw_html only.
EarlierFormats == <<"raw_html", "html">>

EarlierResults ==
  << [raises |-> FALSE, metadata |-> [status_code |-> 200],
      content |-> [f \in Range(EarlierFormats) |-> Text(-1)]],
     [raises |-> FALSE, metadata |-> [status_code |-> 200],
      content |-> [f \in Range(EarlierFormats) |->
                     IF f = "raw_html" THEN Text(0) ELSE None]] >>

EarlierFirst ==
  Attempt("a", "https://a_raw/1", EarlierFormats, EarlierResults[1], 0, NoFiles, -1)

EarlierSecond ==
  Attempt("a_raw", "https://a_raw/2", EarlierFormats, EarlierResults[2], 0,
          EarlierFirst.files, 0)

EarlierLog ==
  << LogEntry("a", "https://a_raw/1", EarlierFormats, EarlierResults[1], 0, -1),
     LogEntry("a_raw", "https://a_raw/2", EarlierFormats, EarlierResults[2], 0, 0) >>

\* The second process when it is not inside scrape_websites, with what its
\* last call gave its caller.
NotRunning(resp) ==
  [pc |-> "idle", websites |-> <<>>, formats |-> <<>>, idx |-> 0,
   scraped_metadata |-> <<>>, successful_scrapes |-> <<>>,
   start |-> AbsentStore, response |-> resp]

\* The attempts an invocation in its loop has still to make.
Pending(position, w, i) == IF position = "loop" THEN Len(w) - i + 1 ELSE 0

\* The server starts in a fresh working directory, or in the one the
\* earlier run left.
Init ==
  /\ clock = 0
  /\ pc = "idle"
  /\ websites = <<>>
  /\ formats = <<>>
  /\ idx = 0
  /\ scraped_metadata = <<>>
  /\ successful_scrapes = <<>>
  /\ response = [kind |-> "none"]
  /\ asked = None
  /\ credential = TRUE
  /\ batch = <<>>
  /\ log = <<>>
  /\ storeWrites = 0
  /\ \/ /\ dirExists = FALSE
        /\ storeFile = AbsentStore
        /\ files = NoFiles
        /\ latest = NoAttempts
        /\ firstInsert = <<>>
     \/ /\ dirExists = TRUE
        /\ storeFile = JsonDump(DictPut(DictPut(<<>>, "a", EarlierFirst.record),
                                        "a_raw", EarlierSecond.record))
        /\ files = EarlierSecond.files
        /\ latest = Completed(NoAttempts, EarlierLog)
        /\ firstInsert = <<"a", "a_raw">>
  /\ start = storeFile
  /\ other = NotRunning([kind |-> "none"])

(***************************************************************************)
(* scrape_websites.                                                        *)
(***************************************************************************)
\* Mutation of CredentialMissing: an empty environment value is accepted.
CredentialMissingOnlyWhenUnset(api_key, env) == api_key = None /\ env = None

\* api_key is None and os.getenv('FIRECRAWL_API_KEY') is falsy.
CredentialMissing(api_key, env) == api_key = None /\ ~Truthy(env)

\* Mutation of LoopDone: the loop is left after its first pass.
LoopDoneAfterFirst(i, w) == i > 1

\* The for loop over websites.items() has no item left.
LoopDone(i, w) == i > Len(w)

ClearLocals ==
  /\ websites' = <<>>
  /\ formats' = <<>>
  /\ idx' = 0
  /\ scraped_metadata' = <<>>
  /\ successful_scrapes' = <<>>

\* The call, up to the for loop: credential resolution, FirecrawlApp(),
\* os.makedirs and the load of the store.
ScrapeBegin ==
  /\ pc = "idle"
  /\ \E w \in Websites, fmts \in FormatLists, api_key \in ApiKeys,
        env \in ApiKeys, appOk \in BOOLEAN :
       /\ clock + Pending(other.pc, other.websites, other.idx) + Len(w)
            <= MaxAttempts
       /\ asked' = None
       /\ credential' = ~(api_key = None /\ env \in {None, ""})
       /\ start' = storeFile
       /\ log' = <<>>
       /\ storeWrites' = 0
       /\ UNCHANGED <<storeFile, files, clock, latest, firstInsert, other>>
       /\ IF CredentialMissing(api_key, env)
            THEN /\ response' = Raise("ValueError", "API key must be provided")
                 /\ pc' = "idle"
                 /\ batch' = <<>>
                 /\ ClearLocals
                 /\ UNCHANGED dirExists
            ELSE IF ~appOk
              THEN /\ response' = Raise("FirecrawlError", "FirecrawlApp")
                   /\ pc' = "idle"
                   /\ batch' = <<>>
                   /\ ClearLocals
                   /\ UNCHANGED dirExists
              ELSE /\ dirExists' = TRUE
                   /\ IF Exists(storeFile) /\ JsonLoadRaises(storeFile)
                        THEN /\ response' = Raise("JSONDecodeError", "json.load")
                             /\ pc' = "idle"
                             /\ batch' = <<>>
                             /\ ClearLocals
                        ELSE /\ response' = [kind |-> "pending"]
                             /\ pc' = "loop"
                             /\ batch' = w
                             /\ websites' = w
                             /\ formats' = fmts
                             /\ idx' = 1
                             /\ scraped_metadata' =
                                  IF ~Exists(storeFile) THEN <<>>
                                  ELSE JsonLoad(storeFile)
                             /\ successful_scrapes' = <<>>

\* One pass of the for loop: the collaborator call, the content files and
\* the record of websites[idx].
ScrapeProvider ==
  /\ pc = "loop"
  /\ ~LoopDone(idx, websites)
  /\ \E scrape_result \in ScrapeResults(formats, clock + 1),
        failAt \in 0..Len(formats) :
       LET provider_name == websites[idx][1]
           url == websites[idx][2]
           a == Attempt(provider_name, url, formats, scrape_result, failAt,
                        files, clock + 1)
       IN /\ clock' = clock + 1
          /\ files' = a.files
          /\ log' = Append(log, LogEntry(provider_name, url, formats,
                                         scrape_result, failAt, clock + 1))
          /\ UNCHANGED <<dirExists, storeFile, asked, credential, batch, start,
                         storeWrites, latest, firstInsert, other>>
          /\ IF a.propagates
               THEN /\ response' = Raise("ValueError", "Invalid IPv6 URL")
                    /\ pc' = "idle"
                    /\ ClearLocals
               ELSE /\ scraped_metadata' =
                         DictPut(scraped_metadata, provider_name, a.record)
                    /\ successful_scrapes' =
                         IF a.ok THEN Append(successful_scrapes, provider_name)
                         ELSE successful_scrapes
                    /\ idx' = idx + 1
                    /\ UNCHANGED <<pc, websites, formats, response>>

\* After the loop: the store file is opened for writing, the mapping is
\* dumped, and the list of successes is returned.
ScrapeSave ==
  /\ pc = "loop"
  /\ LoopDone(idx, websites)
  /\ storeFile' = JsonDump(scraped_metadata)
  /\ storeWrites' = storeWrites + 1
  /\ response' = [kind |-> "return", value |-> successful_scrapes]
  /\ pc' = "idle"
  /\ latest' = Completed(latest, log)
  /\ firstInsert' = AppendNew(firstInsert, log, 1)
  /\ ClearLocals
  /\ UNCHANGED <<dirExists, files, clock, asked, credential, batch, start, log,
                 other>>

(***************************************************************************)
(* extract_scraped_info.                                                   *)
(***************************************************************************)
ExtractScrapedInfo ==
  /\ pc = "idle"
  /\ \E identifier \in Identifiers :
       /\ asked' = identifier
       /\ response' = ExtractResult(dirExists, storeFile, files, identifier)
  /\ credential' = TRUE
  /\ batch' = <<>>
  /\ start' = storeFile
  /\ log' = <<>>
  /\ storeWrites' = 0
  /\ UNCHANGED <<disk, clock, pc, locals, latest, firstInsert, other>>

(***************************************************************************)
(* The process is killed while scrape_websites runs.                       *)
(***************************************************************************)
Crashed ==
  /\ response' = [kind |-> "crash"]
  /\ pc' = "idle"
  /\ ClearLocals

\* Between two passes of the loop, or before the first.
CrashBetweenProviders ==
  /\ pc = "loop"
  /\ ~LoopDone(idx, websites)
  /\ Crashed
  /\ UNCHANGED <<disk, clock, history, other>>

\* Inside a pass, while the content file of format k is being written: the
\* files of the earlier formats are complete, this one is left truncated.
CrashWhileWriting ==
  /\ pc = "loop"
  /\ ~LoopDone(idx, websites)
  /\ \E scrape_result \in ScrapeResults(formats, clock + 1), k \in 1..Len(formats) :
       LET provider_name == websites[idx][1]
           w == WriteContentFiles(provider_name, formats, scrape_result, k, 1,
                                  files, <<>>)
       IN /\ ~scrape_result.raises
          /\ StatusOk(scrape_result)
          /\ w.raised
          /\ files' = WriteFile(w.files, Filename(provider_name, formats[k]), "")
          /\ clock' = clock + 1
          /\ log' = Append(log, LogEntry(provider_name, websites[idx][2], formats,
                                         scrape_result, k, clock + 1))
  /\ Crashed
  /\ UNCHANGED <<dirExists, storeFile, asked, credential, batch, start,
                 storeWrites, latest, firstInsert, other>>

\* In the final save: open(metadata_file, 'w') has truncated the store file
\* and json.dump has not completed.
CrashWhileSaving ==
  /\ pc = "loop"
  /\ LoopDone(idx, websites)
  /\ storeFile' = CorruptStore
  /\ storeWrites' = storeWrites + 1
  /\ Crashed
  /\ UNCHANGED <<dirExists, files, clock, asked, credential, batch, start, log,
                 latest, firstInsert, other>>

(***************************************************************************)
(* extract_scraped_info when content files have been deleted from outside  *)
(* the program, or cannot be opened: open(filepath, 'r') raises for them.  *)
(***************************************************************************)
ExtractUnreadable ==
  /\ pc = "idle"
  /\ \E identifier \in Identifiers, gone \in SUBSET DOMAIN files :
       /\ gone # {}
       /\ asked' = identifier
       /\ response' = ExtractResult(dirExists, storeFile, Without(files, gone),
                                   identifier)
  /\ credential' = TRUE
  /\ batch' = <<>>
  /\ start' = storeFile
  /\ log' = <<>>
  /\ storeWrites' = 0
  /\ UNCHANGED <<disk, clock, pc, locals, latest, firstInsert, other>>

(***************************************************************************)
(* scrape_websites called in a second server process on the same           *)
(* directory, its steps interleaved with those of the first.               *)
(***************************************************************************)
OtherBegin ==
  /\ other.pc = "idle"
  /\ \E w \in Websites, fmts \in FormatLists, api_key \in ApiKeys,
        env \in ApiKeys, appOk \in BOOLEAN :
       /\ clock + Pending(pc, websites, idx) + Len(w) <= MaxAttempts
       /\ IF CredentialMissing(api_key, env)
            THEN /\ other' = NotRunning(Raise("ValueError", "API key must be provided"))
                 /\ UNCHANGED dirExists
            ELSE IF ~appOk
              THEN /\ other' = NotRunning(Raise("FirecrawlError", "FirecrawlApp"))
                   /\ UNCHANGED dirExists
              ELSE /\ dirExists' = TRUE
                   /\ other' =
                        IF Exists(storeFile) /\ JsonLoadRaises(storeFile)
                          THEN NotRunning(Raise("JSONDecodeError", "json.load"))
                          ELSE [pc |-> "loop", websites |-> w, formats |-> fmts,
                                idx |-> 1,
                                scraped_metadata |->
                                  IF ~Exists(storeFile) THEN <<>>
                                  ELSE JsonLoad(storeFile),
                                successful_scrapes |-> <<>>,
                                start |-> storeFile,
                                response |-> [kind |-> "pending"]]
  /\ UNCHANGED <<storeFile, files, clock, pc, locals, response, history>>

OtherProvider ==
  /\ other.pc = "loop"
  /\ ~LoopDone(other.idx, other.websites)
  /\ \E scrape_result \in ScrapeResults(other.formats, clock + 1),
        failAt \in 0..Len(other.formats) :
       LET provider_name == other.websites[other.idx][1]
           url == other.websites[other.idx][2]
           a == Attempt(provider_name, url, other.formats, scrape_result, failAt,
                        files, clock + 1)
       IN /\ clock' = clock + 1
          /\ files' = a.files
          /\ other' =
               IF a.propagates
                 THEN NotRunning(Raise("ValueError", "Invalid IPv6 URL"))
                 ELSE [other EXCEPT
                         !.scraped_metadata =
                           DictPut(other.scraped_metadata, provider_name, a.record),
                         !.successful_scrapes =
                           IF a.ok THEN Append(other.successful_scrapes, provider_name)
                           ELSE other.successful_scrapes,
                         !.idx = other.idx + 1]
  /\ UNCHANGED <<dirExists, storeFile, pc, locals, response, history>>

OtherSave ==
  /\ other.pc = "loop"
  /\ LoopDone(other.idx, other.websites)
  /\ storeFile' = JsonDump(other.scraped_metadata)
  /\ other' = NotRunning([kind |-> "return", value |-> other.successful_scrapes])
  /\ UNCHANGED <<dirExists, files, clock, pc, locals, response, history>>

(***************************************************************************)
(* Specifications.                                                         *)
(***************************************************************************)
Next == ScrapeBegin \/ ScrapeProvider \/ ScrapeSave \/ ExtractScrapedInfo

\* The tools alone, every invocation running to its end.
Spec == Init /\ [][Next]_vars

NextCrash ==
  \/ ScrapeBegin
  \/ ScrapeProvider
  \/ ScrapeSave
  \/ CrashBetweenProviders
  \/ CrashWhileWriting
  \/ CrashWhileSaving

\* Invocations of scrape_websites alone, each running to its end or killed.
SpecCrash == Init /\ [][NextCrash]_vars

NextKill == NextCrash \/ ExtractScrapedInfo

\* The tools, with invocations of scrape_websites that may be killed.
SpecKill == Init /\ [][NextKill]_vars

\* Each of the two processes is called once.
FirstCall == response.kind = "none" /\ ScrapeBegin

OtherCall == other.response.kind = "none" /\ OtherBegin

NextOverlap ==
  \/ FirstCall
  \/ ScrapeProvider
  \/ ScrapeSave
  \/ OtherCall
  \/ OtherProvider
  \/ OtherSave

\* One invocation of scrape_websites by each of two server processes, in
\* any interleaving of their steps, each running to its end.
SpecOverlap == Init /\ [][NextOverlap]_vars

NextEnv == Next \/ ExtractUnreadable

\* The tools, with content files that may be missing at a lookup.
SpecEnv == Init /\ [][NextEnv]_vars

(***************************************************************************)
(* Properties.  What they read of the on-disk store.                       *)
(***************************************************************************)
\* The items of the on-disk store filed under provider p.
Stored(p) == { i \in 1..Len(storeFile.data) : storeFile.data[i][1] = p }

RecordOf(p) == storeFile.data[CHOOSE i \in Stored(p) : TRUE][2]

\* The names of the attempts of l that succeeded, in the order of l.
Successes(l) ==
  LET ok == SelectSeq(l, LAMBDA e : e.succeeded)
  IN [i \in 1..Len(ok) |-> ok[i].provider_name]

\* The record an attempt is to leave, from what the attempt was given.
FailureFields ==
  {"provider_name", "url", "domain", "scraped_at", "formats", "success", "error"}

IsRecordOf(rec, e) ==
  IF e.succeeded
    THEN rec = [provider_name |-> e.provider_name, url |-> e.url,
                domain |-> Netloc(e.url), scraped_at |-> e.at,
                formats |-> e.formats, success |-> TRUE,
                content_files |->
                  [i \in 1..Len(e.returned) |->
                     <<e.returned[i], Filename(e.provider_name, e.returned[i])>>],
                title |-> "", description |-> ""]
    ELSE /\ DOMAIN rec = FailureFields
         /\ rec.provider_name = e.provider_name
         /\ rec.url = e.url
         /\ rec.domain = Netloc(e.url)
         /\ rec.scraped_at = e.at
         /\ rec.formats = e.formats
         /\ rec.success = FALSE
         /\ rec.error # ""

\* The last invocation returned the successes of its batch and saved one
\* record per provider of the batch.
BatchRecorded ==
  /\ response.kind = "return"
  /\ Len(log) = Len(batch)
  /\ \A i \in 1..Len(batch) : log[i].provider_name = batch[i][1]
  /\ response.value = Successes(log)
  /\ storeFile.state = "ok"
  /\ \A i \in 1..Len(batch) :
       /\ Cardinality(Stored(batch[i][1])) = 1
       /\ RecordOf(batch[i][1]).success = log[i].succeeded
       /\ ~log[i].succeeded =>
            /\ "error" \in DOMAIN RecordOf(batch[i][1])
            /\ RecordOf(batch[i][1]).error # ""

\* C1: every invocation that got past credential resolution and the load
\* of the store has, once it is over, returned exactly the providers of its
\* batch whose attempt succeeded, in batch order, and saved a store with one
\* record per provider of the batch, success=true exactly for the returned
\* ones and success=false with an error string for the others.
C1_EveryBatchIsRecorded ==
  (pc = "idle" /\ batch # <<>>) => BatchRecorded

\* C1, for the invocations that return: the same statement under the
\* premise that no url of the batch is rejected by urlparse.
C1_ParseableBatchIsRecorded ==
  (pc = "idle" /\ batch # <<>>
     /\ \A i \in 1..Len(batch) : ~UrlparseRaises(batch[i][2]))
    => BatchRecorded

\* C2: the on-disk store holds exactly one record for each provider that a
\* completed invocation attempted, and it is the record of the most recent
\* such attempt, with no field of an earlier record left in it.
C2_StoreHoldsLatestAttempt ==
  /\ storeFile.state = "ok" \/ DOMAIN latest = {}
  /\ \A i \in 1..Len(storeFile.data) : storeFile.data[i][1] \in DOMAIN latest
  /\ \A p \in DOMAIN latest :
       /\ Cardinality(Stored(p)) = 1
       /\ IsRecordOf(RecordOf(p), latest[p])

\* C2 witness: provider a's last attempt failed, and the html file of an
\* earlier successful attempt of a is still on disk.
C2_Witness ==
  /\ "a" \in DOMAIN latest
  /\ ~latest["a"].succeeded
  /\ Filename("a", "html") \in DOMAIN files
  /\ pc = "idle"

\* The payload of a record: a content section with the text of each file of
\* its content_files, or no content section when it has none.
PayloadOf(rec, fs) ==
  LET content_files == IF "content_files" \in DOMAIN rec THEN rec.content_files
                       ELSE <<>>
  IN IF content_files = <<>> THEN [kind |-> "json", has_content |-> FALSE,
                                   content |-> <<>>]
     ELSE [kind |-> "json", has_content |-> TRUE,
           content |-> [i \in 1..Len(content_files) |->
                          <<content_files[i][1], fs[content_files[i][2]]>>]]

Readable(rec, fs) ==
  "content_files" \in DOMAIN rec =>
    \A i \in 1..Len(rec.content_files) : rec.content_files[i][2] \in DOMAIN fs

\* The three keys a record can be looked up by.
KeysOf(item) == {item[1], item[2].url, item[2].domain}

\* C3, as claimed: a lookup by the provider name, the url or the domain of
\* any stored record returns the payload of that record.
C3_EveryKeyReturnsOwnPayload ==
  asked # None =>
    \A i \in 1..Len(storeFile.data) :
      asked \in KeysOf(storeFile.data[i])
        => response = PayloadOf(storeFile.data[i][2], files)

\* C3, amended: for every stored record whose content files are readable,
\* the lookup by each of its provider name, url and domain that no earlier
\* record of the store has as its own name, url or domain returns the
\* payload of that record.
C3_UnclaimedKeyReturnsOwnPayload ==
  \A i \in 1..Len(storeFile.data) :
    \A identifier \in KeysOf(storeFile.data[i]) :
      (/\ Readable(storeFile.data[i][2], files)
       /\ \A j \in 1..(i - 1) : identifier \notin KeysOf(storeFile.data[j]))
        => ExtractResult(dirExists, storeFile, files, identifier)
             = PayloadOf(storeFile.data[i][2], files)

\* C3 witness: the lookup by the url of a_raw, the second record of the
\* store, returned the content of a_raw's files.
C3_Witness ==
  /\ asked = "https://a_raw/2"
  /\ Len(storeFile.data) = 2
  /\ storeFile.data[2][1] = "a_raw"
  /\ response = PayloadOf(storeFile.data[2][2], files)
  /\ response.has_content

\* C4: when an invocation was killed, every record that the store held when
\* the invocation began is still in the store file, readable and unchanged.
C4_CrashKeepsPersistedRecords ==
  response.kind = "crash" =>
    \A i \in 1..Len(start.data) :
      /\ storeFile.state = "ok"
      /\ Cardinality(Stored(start.data[i][1])) = 1
      /\ RecordOf(start.data[i][1]) = start.data[i][2]

\* C5: while an invocation is in its loop the store file is the one it began
\* with and has not been opened for writing; an invocation that raised has
\* not written it; one that returned has written it exactly once, after the
\* attempt of every provider of its batch.
C5_StoreWrittenOnceAtTheEnd ==
  /\ pc = "loop" => (storeFile = start /\ storeWrites = 0)
  /\ (pc = "idle" /\ response.kind = "raise") => (storeFile = start /\ storeWrites = 0)
  /\ (pc = "idle" /\ response.kind = "return") =>
       /\ storeWrites = 1
       /\ Len(log) = Len(batch)
       /\ storeFile.state = "ok"
       /\ \A i \in 1..Len(batch) : Stored(batch[i][1]) # {}

\* C5 witness: an invocation with a batch of two returned and the store file
\* differs from the one it began with.
C5_Witness ==
  /\ pc = "idle"
  /\ response.kind = "return"
  /\ Len(batch) = 2
  /\ storeWrites = 1
  /\ storeFile # start

\* C6: an invocation that entered its loop never ends by raising: every
\* provider of its batch is attempted and the invocation returns.
C6_NoProviderFailurePropagates ==
  batch # <<>> =>
    /\ response.kind # "raise"
    /\ pc = "idle" => (response.kind = "return" /\ Len(log) = Len(batch))

\* The item of the on-disk store a lookup of identifier selects: the one of
\* least index that has the identifier among its keys, 0 when there is none.
Winner(identifier) ==
  LET hits == { i \in 1..Len(storeFile.data) :
                  identifier \in KeysOf(storeFile.data[i]) }
  IN IF hits = {} THEN 0 ELSE CHOOSE i \in hits : \A j \in hits : i <= j

ContentFilesOf(rec) ==
  IF "content_files" \in DOMAIN rec THEN rec.content_files ELSE <<>>

\* The file names a record refers to.
Referenced(rec) ==
  { ContentFilesOf(rec)[i][2] : i \in 1..Len(ContentFilesOf(rec)) }

\* Every identifier a record of the model can be looked up by.
AllIdentifiers == Identifiers \cup ProviderNames \cup { u \in Urls : ~UrlparseRaises(u) }

\* C7: when the record a lookup selects has content_files and at least one
\* of the files they name cannot be read, whichever it is, the lookup
\* returns the not-found message of the identifier and never a payload.
C7_UnreadableFileGivesNotFound ==
  storeFile.state = "ok" =>
    \A identifier \in AllIdentifiers :
      LET w == Winner(identifier)
      IN w # 0 =>
           \A gone \in SUBSET Referenced(storeFile.data[w][2]) :
             (gone # {} \/ ~Readable(storeFile.data[w][2], files)) =>
               ExtractResult(dirExists, storeFile, Without(files, gone), identifier)
                 = [kind |-> "notfound", identifier |-> identifier]

\* C7 witness: a lookup selected a record with two content files, both
\* written by the program, and returned the not-found message.
C7_Witness ==
  /\ asked # None
  /\ Winner(asked) # 0
  /\ Len(ContentFilesOf(storeFile.data[Winner(asked)][2])) = 2
  /\ Readable(storeFile.data[Winner(asked)][2], files)
  /\ response = [kind |-> "notfound", identifier |-> asked]

\* C8: the store lists the providers in the order in which they were first
\* saved, a later scrape of a provider leaving its place unchanged, and a
\* lookup selects the first record in that order that has the identifier as
\* its provider name, url or domain.
C8_FirstMatchInInsertionOrder ==
  storeFile.state = "ok" =>
    /\ KeySeq(storeFile.data) = firstInsert
    /\ \A identifier \in AllIdentifiers :
         LET w == Winner(identifier)
             r == ExtractResult(dirExists, storeFile, files, identifier)
         IN /\ FindMatch(storeFile.data, identifier, 1) = w
            /\ w = 0 => r = [kind |-> "notfound", identifier |-> identifier]
            /\ (w # 0 /\ Readable(storeFile.data[w][2], files)) =>
                 r = PayloadOf(storeFile.data[w][2], files)

\* C8 witness: both stored providers have the identifier a_raw as a key,
\* provider a was scraped again after a_raw was, a is still first in the
\* store, and the lookup of a_raw returned a's payload.
C8_Witness ==
  /\ asked = "a_raw"
  /\ firstInsert = <<"a", "a_raw">>
  /\ latest["a"].at > latest["a_raw"].at
  /\ latest["a"].succeeded
  /\ response = PayloadOf(RecordOf("a"), files)
  /\ response # PayloadOf(RecordOf("a_raw"), files)

\* C9: for the record a lookup selects, whichever files are unreadable: a
\* payload has a content section exactly when the record has a non-empty
\* content_files, the section then has the keys of content_files in their
\* order, each with the text of its file; and a record without content_files
\* or with an empty one gives a payload with no content section, not the
\* not-found message.
C9_ContentSectionMirrorsContentFiles ==
  storeFile.state = "ok" =>
    \A identifier \in AllIdentifiers :
      LET w == Winner(identifier)
      IN w # 0 =>
           \A gone \in SUBSET Referenced(storeFile.data[w][2]) :
             LET cf == ContentFilesOf(storeFile.data[w][2])
                 fs == Without(files, gone)
                 r == ExtractResult(dirExists, storeFile, fs, identifier)
             IN /\ r.kind \in {"json", "notfound"}
                /\ cf = <<>> => r = [kind |-> "json", has_content |-> FALSE,
                                     content |-> <<>>]
                /\ r.kind = "json" =>
                     /\ r.has_content <=> cf # <<>>
                     /\ Len(r.content) = Len(cf)
                     /\ \A k \in 1..Len(cf) :
                          /\ r.content[k][1] = cf[k][1]
                          /\ r.content[k][2] = fs[cf[k][2]]

\* C9 witness: a lookup selected a success record whose content_files is
\* empty and returned a payload with no content section.
C9_Witness ==
  /\ asked # None
  /\ Winner(asked) # 0
  /\ storeFile.data[Winner(asked)][2].success
  /\ ContentFilesOf(storeFile.data[Winner(asked)][2]) = <<>>
  /\ response = [kind |-> "json", has_content |-> FALSE, content |-> <<>>]

\* C10: a step after which the last invocation is one called without a
\* credential, the environment giving none, is a step that raises the
\* missing-credential error, calls the collaborator for no provider and
\* leaves the directory, the store file and every content file as they were.
C10_MissingCredentialFailsFirst ==
  [][~credential' =>
       /\ response' = [kind |-> "raise", type |-> "ValueError",
                       msg |-> "API key must be provided"]
       /\ pc' = "idle"
       /\ log' = <<>>
       /\ clock' = clock
       /\ disk' = disk]_vars

\* C10 witness: the last invocation was called without a credential and
\* raised, on a disk that holds a store and content files.
C10_Witness ==
  /\ ~credential
  /\ response.kind = "raise"
  /\ storeFile.state = "ok"
  /\ DOMAIN files # {}

\* C11: as long as no invocation has saved a store, the store file is absent,
\* with or without the output directory, and a lookup of any identifier
\* fails with FileNotFoundError; it returns neither the not-found message
\* nor a payload.
C11_MissingStoreFailsLookup ==
  /\ firstInsert = <<>> => storeFile.state = "absent"
  /\ storeFile.state = "absent" =>
       /\ \A identifier \in AllIdentifiers :
            LET r == ExtractResult(dirExists, storeFile, files, identifier)
            IN r.kind = "raise" /\ r.type = "FileNotFoundError"
       /\ asked # None =>
            (response.kind = "raise" /\ response.type = "FileNotFoundError")

\* C11 witness: a lookup was made in an output directory that an invocation
\* created without reaching its save, and failed for the missing store file.
C11_Witness ==
  /\ asked # None
  /\ dirExists
  /\ storeFile.state = "absent"
  /\ response = [kind |-> "raise", type |-> "FileNotFoundError",
                 msg |-> "Metadata file not found"]

\* C12: when the store file holds text that json.load rejects, a lookup of
\* any identifier fails with the ValueError of the decoding, and an
\* invocation of scrape_websites on it fails without an attempt for any
\* provider and without opening the store file for writing, with the
\* JSONDecodeError of the load unless it failed before reaching the load.
C12_CorruptStoreIsFatal ==
  /\ storeFile.state = "corrupt" =>
       \A identifier \in AllIdentifiers :
         ExtractResult(dirExists, storeFile, files, identifier)
           = [kind |-> "raise", type |-> "ValueError",
              msg |-> "Error decoding JSON from metadata file"]
  /\ (start.state = "corrupt" /\ asked = None) =>
       /\ pc = "idle"
       /\ response.kind = "raise"
       /\ log = <<>>
       /\ batch = <<>>
       /\ storeFile = start
       /\ storeWrites = 0
       /\ \/ response.type = "JSONDecodeError"
          \/ ~credential
          \/ response.type = "FirecrawlError"

\* C12 witness: scrape_websites was called on a store file left unparseable
\* by a killed save and raised the error of the load.
C12_Witness ==
  /\ start.state = "corrupt"
  /\ storeFile.state = "corrupt"
  /\ response = [kind |-> "raise", type |-> "JSONDecodeError", msg |-> "json.load"]
  /\ DOMAIN files # {}

\* The record the running invocation holds in memory for provider p.
InMemory(mapping, p) ==
  mapping[CHOOSE i \in 1..Len(mapping) : mapping[i][1] = p][2]

\* C13: an attempt that stores a success record gives it as content_files
\* exactly the requested formats the collaborator returned non-empty content
\* for, in the order requested, each with the file name
\* {provider_name}_{format}.txt, and has written the returned content to
\* each of these files; the file of a requested format with absent or empty
\* content is neither created nor changed by the attempt.  Every success
\* record of the store has its content_files among its formats.
C13_ContentFilesAreReturnedFormats ==
  /\ [](\A i \in 1..Len(storeFile.data) :
          LET rec == storeFile.data[i][2]
          IN rec.success =>
               \A k \in 1..Len(rec.content_files) :
                 /\ rec.content_files[k][1] \in Range(rec.formats)
                 /\ rec.content_files[k][2]
                      = Filename(rec.provider_name, rec.content_files[k][1]))
  /\ [][(pc = "loop" /\ pc' = "loop" /\ clock' = clock + 1
           /\ log'[Len(log')].succeeded) =>
          LET e == log'[Len(log')]
              rec == InMemory(scraped_metadata', e.provider_name)
          IN /\ rec.success
             /\ KeySeq(rec.content_files) = e.returned
             /\ \A k \in 1..Len(rec.content_files) :
                  rec.content_files[k][2]
                    = Filename(e.provider_name, rec.content_files[k][1])
             /\ \A f \in Range(e.formats) :
                  LET name == Filename(e.provider_name, f)
                  IN IF f \in Range(e.returned)
                       THEN name \in DOMAIN files' /\ files'[name] = Text(e.at)
                       ELSE /\ name \in DOMAIN files' <=> name \in DOMAIN files
                            /\ name \in DOMAIN files => files'[name] = files[name]]_vars

\* C13 witness: in a fresh directory the collaborator returned html only for
\* a_raw; the record in memory lists html alone, a_raw_html.txt holds the
\* returned text and no file was made for raw_html.
C13_Witness ==
  /\ pc = "loop"
  /\ log # <<>>
  /\ log[Len(log)].succeeded
  /\ log[Len(log)].returned = <<"html">>
  /\ log[Len(log)].provider_name = "a_raw"
  /\ InMemory(scraped_metadata, "a_raw").content_files
       = << <<"html", "a_raw_html.txt">> >>
  /\ files["a_raw_html.txt"] = Text(log[Len(log)].at)
  /\ Filename("a_raw", "raw_html") \notin DOMAIN files

\* The attempt a step has just made reported a status other than 200, or
\* none (read as 0).
Non200Attempt ==
  /\ clock' = clock + 1
  /\ log'[Len(log')].answered
  /\ ~log'[Len(log')].status200

\* What the claim says of such an attempt: a failure record is put in the
\* mapping, the provider is not added to the successes, no file changes.
Non200Outcome ==
  LET e == log'[Len(log')]
  IN /\ pc' = "loop"
     /\ e.provider_name \in Keys(scraped_metadata')
     /\ ~InMemory(scraped_metadata', e.provider_name).success
     /\ "error" \in DOMAIN InMemory(scraped_metadata', e.provider_name)
     /\ successful_scrapes' = successful_scrapes
     /\ files' = files

\* C14: every attempt whose response reports a status other than 200, or no
\* status, stores a failure record for its provider, leaves the provider out
\* of the returned list and creates or changes no content file, whatever
\* content the response carries.
C14_Non200IsFailure ==
  /\ [][Non200Attempt => Non200Outcome]_vars
  /\ [](response.kind = "return" =>
          \A i \in 1..Len(log) :
            (log[i].answered /\ ~log[i].status200)
              => log[i].provider_name \notin Range(response.value))

\* C14, for the attempts whose url urlparse accepts.
C14_ParseableNon200IsFailure ==
  [][(Non200Attempt /\ ~UrlparseRaises(log'[Len(log')].url)) => Non200Outcome]_vars

\* The record the store file holds for p before and after a step.
RecordBefore(p) == InMemory(storeFile.data, p)
RecordAfter(p) == InMemory(storeFile'.data, p)

BatchNames == { batch[i][1] : i \in 1..Len(batch) }

\* C15: a step changes the record of a provider, or gives it one, only when
\* it is the save of an invocation of scrape_websites that has the provider
\* in its batch; a provider that has a record in the store file has one
\* after every step; and a lookup changes neither the store file nor a
\* content file.
C15_OnlyBatchRecordsChange ==
  /\ [][\A p \in Keys(storeFile.data) : p \in Keys(storeFile'.data)]_vars
  /\ [][\A p \in Keys(storeFile'.data) :
          (p \notin Keys(storeFile.data) \/ RecordAfter(p) # RecordBefore(p))
            => (pc = "loop" /\ LoopDone(idx, websites) /\ p \in BatchNames)]_vars
  /\ [][asked' # None => (disk' = disk)]_vars

\* C15, for the invocations that run to their end: the same statement read
\* without the steps at which the process is killed.
C15_OnlyBatchRecordsChangeUnlessKilled ==
  [][response'.kind # "crash" =>
       /\ \A p \in Keys(storeFile.data) : p \in Keys(storeFile'.data)
       /\ \A p \in Keys(storeFile'.data) :
            (p \notin Keys(storeFile.data) \/ RecordAfter(p) # RecordBefore(p))
              => (pc = "loop" /\ LoopDone(idx, websites) /\ p \in BatchNames)
       /\ asked' # None => (disk' = disk)]_vars

\* What a save leaves in the store file, given the store file the saving
\* invocation loaded and its batch: the providers of the snapshot and of the
\* batch and no other, the snapshot's record for those outside the batch;
\* so a record another invocation saved since the load, for a provider
\* outside this batch, is gone or back to its snapshot value.
SavesSnapshotPlusBatch(snapshot, w) ==
  LET names == { w[i][1] : i \in 1..Len(w) }
  IN /\ storeFile'.state = "ok"
     /\ Keys(storeFile'.data) = Keys(snapshot.data) \cup names
     /\ \A p \in Keys(snapshot.data) \ names :
          RecordAfter(p) = InMemory(snapshot.data, p)
     /\ \A p \in Keys(storeFile.data) \ (Keys(snapshot.data) \cup names) :
          p \notin Keys(storeFile'.data)

\* C16: of two invocations whose steps interleave, each saves the store it
\* loaded plus the records of its own batch, whatever the store file holds
\* at the time of the save: the last save decides the store file, and what
\* the other invocation saved after this one loaded is lost for every
\* provider outside this one's batch.
C16_LastSaverWins ==
  /\ [][(pc = "loop" /\ LoopDone(idx, websites) /\ pc' = "idle")
         => SavesSnapshotPlusBatch(start, websites)]_vars
  /\ [][(other.pc = "loop" /\ LoopDone(other.idx, other.websites)
           /\ other'.pc = "idle")
         => SavesSnapshotPlusBatch(other.start, other.websites)]_vars

\* C16 witness: both invocations have returned, the first with provider a
\* scraped successfully and saved, and the store file the second one wrote
\* afterwards has no record of a.
C16_Witness ==
  /\ pc = "idle"
  /\ response = [kind |-> "return", value |-> <<"a">>]
  /\ other.pc = "idle"
  /\ other.response.kind = "return"
  /\ storeFile.state = "ok"
  /\ "a" \notin Keys(storeFile.data)
  /\ Filename("a", "html") \in DOMAIN files

\* C17: whenever the store file can be read, every file named in the
\* content_files of any of its records is in the output directory, and the
\* lookup of any identifier that selects a record returns a payload, not the
\* not-found message.
C17_ReferencedFilesExist ==
  storeFile.state = "ok" =>
    /\ \A i \in 1..Len(storeFile.data) : Readable(storeFile.data[i][2], files)
    /\ \A identifier \in AllIdentifiers :
         Winner(identifier) # 0 =>
           ExtractResult(dirExists, storeFile, files, identifier).kind = "json"

\* C17 witness: an invocation was killed while it was rewriting a_html.txt,
\* which the stored record of a names; the file is there, truncated.
C17_Witness ==
  /\ response.kind = "crash"
  /\ storeFile.state = "ok"
  /\ "a" \in Keys(storeFile.data)
  /\ "a_html.txt" \in Referenced(RecordOf("a"))
  /\ files["a_html.txt"] = ""

\* The content section a lookup is to give for a provider whose most recent
\* attempt was e: each returned format with the text returned at that time,
\* nothing after a failure.
ContentOfAttempt(e) ==
  IF e.succeeded
    THEN [i \in 1..Len(e.returned) |-> <<e.returned[i], Text(e.at)>>]
    ELSE <<>>

\* C18: in the state an invocation returns in, the lookup of any identifier
\* that selects the record of a provider p returns, format by format, the
\* content the collaborator returned in the most recent attempt of p, and no
\* content when that attempt failed.
C18_LookupReturnsLatestContent ==
  (pc = "idle" /\ asked = None /\ response.kind = "return") =>
    \A identifier \in AllIdentifiers :
      Winner(identifier) # 0 =>
        LET p == storeFile.data[Winner(identifier)][1]
            r == ExtractResult(dirExists, storeFile, files, identifier)
        IN /\ r.kind = "json"
           /\ r.content = ContentOfAttempt(latest[p])

\* C19: in every state, each content file named by a success record of the
\* store file holds the text the collaborator returned in the attempt that
\* made the record, the one at the record's scraped_at.
C19_FilesMatchStoredRecord ==
  \A i \in 1..Len(storeFile.data) :
    LET rec == storeFile.data[i][2]
    IN rec.success =>
         \A k \in 1..Len(rec.content_files) :
           /\ rec.content_files[k][2] \in DOMAIN files
           /\ files[rec.content_files[k][2]] = Text(rec.scraped_at)

====
